---- MODULE Spec2Model ----
(***************************************************************************)
(* Model of svo::FrameHandlerBase (frame_handler_base.cpp): the stage      *)
(* machine, the per-frame start/finish hooks, the reset bookkeeping and    *)
(* the tracking-quality gate.                                              *)
(***************************************************************************)
EXTENDS Integers, Sequences, FiniteSets, TLC

\* ------------------------------------------------------------------ bounds
\* largest observation count handed to finishFrameProcessingCommon / setTrackingQuality
MaxObs == 2
\* largest value of the Config thresholds (qualityMinFts, maxFts, qualityMaxFtsDrop)
MaxThr == 1
\* largest number of points the map holds (live + trash)
MaxPts == 1
\* largest number of Features of a frame handed to optimizeStructure
MaxFts == 3
\* number of Points the Features can reference
NumPoints == 2
\* largest frame id
MaxFrameId == 1
\* largest number of candidate points in map_.point_candidates_
MaxCand == 1

\* ------------------------------------------------------------------ enums
STAGE_PAUSED == "STAGE_PAUSED"
STAGE_FIRST_FRAME == "STAGE_FIRST_FRAME"
STAGE_DEFAULT_FRAME == "STAGE_DEFAULT_FRAME"
STAGE_RELOCALIZING == "STAGE_RELOCALIZING"
Stage == {STAGE_PAUSED, STAGE_FIRST_FRAME, STAGE_DEFAULT_FRAME, STAGE_RELOCALIZING}

TRACKING_GOOD == "TRACKING_GOOD"
TRACKING_INSUFFICIENT == "TRACKING_INSUFFICIENT"
TrackingQuality == {TRACKING_GOOD, TRACKING_INSUFFICIENT}

RESULT_NORMAL == "RESULT_NORMAL"
RESULT_IS_KEYFRAME == "RESULT_IS_KEYFRAME"
RESULT_FAILURE == "RESULT_FAILURE"
UpdateResult == {RESULT_NORMAL, RESULT_IS_KEYFRAME, RESULT_FAILURE}

\* ------------------------------------------------------------------ state
VARIABLES
  stage_,             \* FrameHandlerBase::stage_
  set_reset_,         \* FrameHandlerBase::set_reset_
  set_start_,         \* FrameHandlerBase::set_start_
  num_obs_last_,      \* FrameHandlerBase::num_obs_last_
  tracking_quality_,  \* FrameHandlerBase::tracking_quality_
  map_,               \* FrameHandlerBase::map_ : [points, trash]
  cfg,                \* Config: [qualityMinFts, maxFts, qualityMaxFtsDrop]
  last,               \* the call that produced this state (arguments, entry state, result)
  startAsked          \* what became of the last start() request: "no" request is open,
                      \* it is "pending", or a reset request was applied over it ("dropped")

VARIABLES
  last_structure_optim_,  \* Point::last_structure_optim_ of every Point
  frame_id,               \* Frame::id_ of the newest frame
  opt,                    \* the last optimizeStructure call (arguments, entry state, result)
  streak                  \* the run of like optimizeStructure calls that call belongs to

optVars == <<last_structure_optim_, frame_id, opt, streak>>

VARIABLES
  svo_trace,    \* the build defines SVO_TRACE
  mut_,         \* map_.point_candidates_.mut_: who holds it
  candidates_,  \* map_.point_candidates_.candidates_.size()
  fin,          \* the finishFrameProcessingCommon call in flight: position and locals
  wpc           \* the background worker's position

lockVars == <<svo_trace, mut_, candidates_, fin, wpc>>

vars == <<stage_, set_reset_, set_start_, num_obs_last_, tracking_quality_,
          map_, cfg, last, startAsked, optVars, lockVars>>

\* The controller's members as one value; calls is the list of Map methods
\* the running call has invoked so far.
Cur ==
  [stage |-> stage_, set_reset |-> set_reset_, set_start |-> set_start_,
   num_obs_last |-> num_obs_last_, tracking_quality |-> tracking_quality_,
   map |-> map_, calls |-> <<>>]

\* ------------------------------------------------------------------ Map
\* Map::reset(): drop all points and candidates (and what waits for deletion)
MapReset(m) ==
  [points |-> 0, trash |-> 0]

\* Map::emptyTrash(): drain the deferred deletions
MapEmptyTrash(m) ==
  [m EXCEPT !.trash = 0]

\* ------------------------------------------------------------------ reset
resetCommon_keepReset(s) ==
  [s EXCEPT !.map = MapReset(s.map), !.calls = Append(s.calls, "reset"),
            !.stage = STAGE_PAUSED, !.set_start = FALSE,
            !.tracking_quality = TRACKING_INSUFFICIENT, !.num_obs_last = 0]

resetCommon_keepObs(s) ==
  [s EXCEPT !.map = MapReset(s.map), !.calls = Append(s.calls, "reset"),
            !.stage = STAGE_PAUSED, !.set_reset = FALSE, !.set_start = FALSE,
            !.tracking_quality = TRACKING_INSUFFICIENT]

\* FrameHandlerBase::resetCommon()
resetCommon(s) ==
  [s EXCEPT !.map = MapReset(s.map), !.calls = Append(s.calls, "reset"),
            !.stage = STAGE_PAUSED, !.set_reset = FALSE, !.set_start = FALSE,
            !.tracking_quality = TRACKING_INSUFFICIENT, !.num_obs_last = 0]

\* FrameHandlerBase::resetAll(): the base class delegates to resetCommon()
resetAll(s) ==
  resetCommon(s)

\* ------------------------------------------------------------------ frame start
startFrameProcessingCommon_drainFirst(s) ==
  LET s1 == IF s.set_start
            THEN [resetAll(s) EXCEPT !.stage = STAGE_FIRST_FRAME]
            ELSE s
      s2 == [s1 EXCEPT !.map = MapEmptyTrash(s1.map),
                       !.calls = Append(s1.calls, "emptyTrash")]
  IN  IF s2.stage = STAGE_PAUSED
      THEN [st |-> s2, ret |-> "false"]
      ELSE [st |-> s2, ret |-> "true"]

startFrameProcessingCommon_noReset(s) ==
  LET s1 == IF s.set_start
            THEN [s EXCEPT !.stage = STAGE_FIRST_FRAME, !.set_start = FALSE]
            ELSE s
  IN  IF s1.stage = STAGE_PAUSED
      THEN [st |-> s1, ret |-> "false"]
      ELSE [st |-> [s1 EXCEPT !.map = MapEmptyTrash(s1.map),
                              !.calls = Append(s1.calls, "emptyTrash")],
            ret |-> "true"]

\* FrameHandlerBase::startFrameProcessingCommon(timestamp)
startFrameProcessingCommon(s) ==
  LET s1 == IF s.set_start
            THEN [resetAll(s) EXCEPT !.stage = STAGE_FIRST_FRAME]
            ELSE s
  IN  IF s1.stage = STAGE_PAUSED
      THEN [st |-> s1, ret |-> "false"]
      ELSE [st |-> [s1 EXCEPT !.map = MapEmptyTrash(s1.map),
                              !.calls = Append(s1.calls, "emptyTrash")],
            ret |-> "true"]

\* ------------------------------------------------------------------ frame finish
finishFrameProcessingCommon_anyStageSoft(s, dropout, num_observations) ==
  LET s1 == [s EXCEPT !.num_obs_last = num_observations]
      s2 == IF dropout = RESULT_FAILURE
               /\ TRUE
            THEN [s1 EXCEPT !.stage = STAGE_RELOCALIZING,
                            !.tracking_quality = TRACKING_INSUFFICIENT]
            ELSE IF dropout = RESULT_FAILURE
                 THEN [resetAll(s1) EXCEPT !.set_start = TRUE]
                 ELSE s1
  IN  IF s2.set_reset THEN resetAll(s2) ELSE s2

finishFrameProcessingCommon_onlyDefaultSoft(s, dropout, num_observations) ==
  LET s1 == [s EXCEPT !.num_obs_last = num_observations]
      s2 == IF dropout = RESULT_FAILURE
               /\ s1.stage = STAGE_DEFAULT_FRAME
            THEN [s1 EXCEPT !.stage = STAGE_RELOCALIZING,
                            !.tracking_quality = TRACKING_INSUFFICIENT]
            ELSE IF dropout = RESULT_FAILURE
                 THEN [resetAll(s1) EXCEPT !.set_start = TRUE]
                 ELSE s1
  IN  IF s2.set_reset THEN resetAll(s2) ELSE s2

finishFrameProcessingCommon_noRestart(s, dropout, num_observations) ==
  LET s1 == [s EXCEPT !.num_obs_last = num_observations]
      s2 == IF dropout = RESULT_FAILURE
               /\ (s1.stage = STAGE_DEFAULT_FRAME \/ s1.stage = STAGE_RELOCALIZING)
            THEN [s1 EXCEPT !.stage = STAGE_RELOCALIZING,
                            !.tracking_quality = TRACKING_INSUFFICIENT]
            ELSE IF dropout = RESULT_FAILURE
                 THEN resetAll(s1)
                 ELSE s1
  IN  IF s2.set_reset THEN resetAll(s2) ELSE s2

finishFrameProcessingCommon_noRecord(s, dropout, num_observations) ==
  LET s1 == s
      s2 == IF dropout = RESULT_FAILURE
               /\ (s1.stage = STAGE_DEFAULT_FRAME \/ s1.stage = STAGE_RELOCALIZING)
            THEN [s1 EXCEPT !.stage = STAGE_RELOCALIZING,
                            !.tracking_quality = TRACKING_INSUFFICIENT]
            ELSE IF dropout = RESULT_FAILURE
                 THEN [resetAll(s1) EXCEPT !.set_start = TRUE]
                 ELSE s1
  IN  IF s2.set_reset THEN resetAll(s2) ELSE s2

finishFrameProcessingCommon_keyframeFails(s, dropout, num_observations) ==
  LET s1 == [s EXCEPT !.num_obs_last = num_observations]
      s2 == IF dropout # RESULT_NORMAL
               /\ (s1.stage = STAGE_DEFAULT_FRAME \/ s1.stage = STAGE_RELOCALIZING)
            THEN [s1 EXCEPT !.stage = STAGE_RELOCALIZING,
                            !.tracking_quality = TRACKING_INSUFFICIENT]
            ELSE IF dropout # RESULT_NORMAL
                 THEN [resetAll(s1) EXCEPT !.set_start = TRUE]
                 ELSE s1
  IN  IF s2.set_reset THEN resetAll(s2) ELSE s2

\* FrameHandlerBase::finishFrameProcessingCommon(update_id, dropout, num_observations)
finishFrameProcessingCommon(s, dropout, num_observations) ==
  LET s1 == [s EXCEPT !.num_obs_last = num_observations]
      s2 == IF dropout = RESULT_FAILURE
               /\ (s1.stage = STAGE_DEFAULT_FRAME \/ s1.stage = STAGE_RELOCALIZING)
            THEN [s1 EXCEPT !.stage = STAGE_RELOCALIZING,
                            !.tracking_quality = TRACKING_INSUFFICIENT]
            ELSE IF dropout = RESULT_FAILURE
                 THEN [resetAll(s1) EXCEPT !.set_start = TRUE]
                 ELSE s1
  IN  IF s2.set_reset THEN resetAll(s2) ELSE s2

\* ------------------------------------------------------------------ quality gate
\* std::min
Min(a, b) ==
  IF b < a THEN b ELSE a

\* int - size_t: the int operand is converted to size_t and the subtraction
\* is done modulo 2^64; the value is mag, or 2^64 - mag when wrap is set
SizeTSub(a, b) ==
  IF a >= b THEN [wrap |-> FALSE, mag |-> a - b]
            ELSE [wrap |-> TRUE, mag |-> b - a]

SizeTToInt_unsigned(u) ==
  IF u.wrap THEN 2147483647 - u.mag ELSE u.mag

\* initialisation of an int from a size_t: the low 32 bits, two's complement
\* (2^64 - mag has the low 32 bits of -mag)
SizeTToInt(u) ==
  IF u.wrap THEN 0 - u.mag ELSE u.mag

\* feature_drop of setTrackingQuality
FeatureDrop(s, c, num_observations) ==
  SizeTToInt(SizeTSub(Min(s.num_obs_last, c.maxFts), num_observations))

setTrackingQuality_chained(s, c, num_observations) ==
  IF num_observations < c.qualityMinFts
  THEN [s EXCEPT !.tracking_quality = TRACKING_INSUFFICIENT]
  ELSE IF FeatureDrop(s, c, num_observations) >= c.qualityMaxFtsDrop
       THEN [s EXCEPT !.tracking_quality = TRACKING_INSUFFICIENT]
       ELSE [s EXCEPT !.tracking_quality = TRACKING_GOOD]

\* FrameHandlerBase::setTrackingQuality(num_observations)
setTrackingQuality(s, c, num_observations) ==
  LET s1 == [s EXCEPT !.tracking_quality = TRACKING_GOOD]
      s2 == IF num_observations < c.qualityMinFts
            THEN [s1 EXCEPT !.tracking_quality = TRACKING_INSUFFICIENT]
            ELSE s1
      feature_drop == FeatureDrop(s2, c, num_observations)
  IN  IF feature_drop > c.qualityMaxFtsDrop
      THEN [s2 EXCEPT !.tracking_quality = TRACKING_INSUFFICIENT]
      ELSE s2

\* ------------------------------------------------------------------ structure optimizer
\* the Points of the map, and Feature::point == NULL
Points == 1..NumPoints
NULL == 0

ptLastOptimComparator_greater(marks, lhs, rhs) ==
  marks[lhs] > marks[rhs]

\* ptLastOptimComparator(lhs, rhs)
ptLastOptimComparator(marks, lhs, rhs) ==
  marks[lhs] < marks[rhs]

\* the loop of lines 197-201: the points of the features that have one, in order
CollectPts(fts) ==
  SelectSeq(fts, LAMBDA f : f # NULL)

\* the orders of pts
Rearrangements(pts) ==
  { [i \in 1..Len(pts) |-> pts[f[i]]] : f \in Permutations(1..Len(pts)) }

\* std::nth_element(first, first + nth, last, comp): every order in which the
\* element at offset nth is the one a full sort puts there, nothing before it
\* comes after an element behind it, and nothing behind it comes before it;
\* no effect when nth is the end
NthElement(pts, nth, marks) ==
  IF Len(pts) = 0 \/ nth = Len(pts)
  THEN {pts}
  ELSE { q \in Rearrangements(pts) :
           /\ \A i \in 1..nth, j \in (nth + 1)..Len(q) :
                ~ptLastOptimComparator(marks, q[j], q[i])
           /\ \A j \in (nth + 2)..Len(q) :
                ~ptLastOptimComparator(marks, q[j], q[nth + 1]) }

\* the points of the sequence q
Range(q) ==
  { q[i] : i \in 1..Len(q) }

optimizeStructure_noCap(marks, id, fts, max_n_pts) ==
  LET pts == CollectPts(fts)
      n == Len(pts)
  IN  { [optimized |-> SubSeq(q, 1, n),
         marks |-> [p \in Points |-> IF p \in Range(SubSeq(q, 1, n)) THEN id ELSE marks[p]]] :
        q \in NthElement(pts, n, marks) }

optimizeStructure_noStamp(marks, id, fts, max_n_pts) ==
  LET pts == CollectPts(fts)
      n == Min(max_n_pts, Len(pts))
  IN  { [optimized |-> SubSeq(q, 1, n), marks |-> marks] :
        q \in NthElement(pts, n, marks) }

\* FrameHandlerBase::optimizeStructure(frame, max_n_pts, max_iter): every
\* outcome, as the Point::optimize calls in order and the marks on return
optimizeStructure(marks, id, fts, max_n_pts) ==
  LET pts == CollectPts(fts)
      n == Min(max_n_pts, Len(pts))
  IN  { [optimized |-> SubSeq(q, 1, n),
         marks |-> [p \in Points |-> IF p \in Range(SubSeq(q, 1, n)) THEN id ELSE marks[p]]] :
        q \in NthElement(pts, n, marks) }

\* the Feature lists of a frame
RECURSIVE SeqsUpTo(_, _)
SeqsUpTo(S, n) ==
  IF n = 0 THEN {<<>>}
  ELSE LET shorter == SeqsUpTo(S, n - 1)
       IN  shorter \cup { Append(q, x) : q \in { r \in shorter : Len(r) = n - 1 }, x \in S }

FrameFts ==
  SeqsUpTo(Points \cup {NULL}, MaxFts)

\* no optimizeStructure call yet
NoOpt ==
  [called |-> FALSE, id |-> 0, fts |-> <<>>, max_n_pts |-> 0, optimized |-> <<>>,
   pre |-> [p \in Points |-> 0],
   ctrl |-> [stage |-> STAGE_PAUSED, set_reset |-> FALSE, set_start |-> FALSE,
             num_obs_last |-> 0, tracking_quality |-> TRACKING_INSUFFICIENT]]

NoStreak ==
  [k |-> 0, S |-> {}, once |-> TRUE, age |-> [p \in Points |-> 0]]

\* the run of calls a call continues or starts: calls with the same
\* max_n_pts >= 1 on frames whose Features reference the same Points and
\* whose id is above every stored mark; age counts for each of these Points
\* the calls of the run since it was last refined, once tells that no frame
\* of the run referenced a Point from two Features
NextStreak(marks, id, fts, max_n_pts, optimized) ==
  LET pts == CollectPts(fts)
      like == /\ max_n_pts >= 1
              /\ \A p \in Points : marks[p] < id
      cont == like /\ streak.k = max_n_pts /\ streak.S = Range(pts)
  IN  IF ~like THEN NoStreak
      ELSE [k |-> max_n_pts, S |-> Range(pts),
            once |-> (Cardinality(Range(pts)) = Len(pts)) /\ (cont => streak.once),
            age |-> [p \in Points |->
                       IF p \notin Range(pts) \/ p \in Range(optimized) THEN 0
                       ELSE (IF cont THEN streak.age[p] ELSE 0) + 1]]

\* ------------------------------------------------------------------ actions
\* nothing has been called yet
NoCall ==
  [op |-> "none", dropout |-> "none", n |-> 0, ret |-> "void", calls |-> <<>>,
   pre |-> [stage |-> STAGE_PAUSED, set_reset |-> FALSE, set_start |-> FALSE,
            num_obs_last |-> 0, tracking_quality |-> TRACKING_INSUFFICIENT,
            map |-> [points |-> 0, trash |-> 0], startAsked |-> "no"],
   prevHard |-> FALSE, inFrame |-> FALSE]

\* the call that produced the current state was a finishFrameProcessingCommon
\* that took the hard-failure branch with no reset request pending
HardFailureDone ==
  /\ last.op = "finishFrameProcessing"
  /\ last.dropout = RESULT_FAILURE
  /\ last.pre.stage \in {STAGE_PAUSED, STAGE_FIRST_FRAME}
  /\ ~last.pre.set_reset

\* store the members computed by a call and record the call
Store(op, dropout, n, r, ret) ==
  /\ stage_' = r.stage
  /\ set_reset_' = r.set_reset
  /\ set_start_' = r.set_start
  /\ num_obs_last_' = r.num_obs_last
  /\ tracking_quality_' = r.tracking_quality
  /\ map_' = r.map
  /\ last' = [op |-> op, dropout |-> dropout, n |-> n, ret |-> ret,
              calls |-> r.calls,
              pre |-> [stage |-> stage_, set_reset |-> set_reset_,
                       set_start |-> set_start_, num_obs_last |-> num_obs_last_,
                       tracking_quality |-> tracking_quality_, map |-> map_,
                       startAsked |-> startAsked],
              prevHard |-> HardFailureDone,
              \* a frame is open from a startFrameProcessingCommon that
              \* returned true to the finishFrameProcessingCommon after it
              inFrame |-> IF op = "startFrameProcessing" THEN ret = "true"
                          ELSE IF op \in {"finishFrameProcessing", "resetAll"} THEN FALSE
                          ELSE last.inFrame]
  /\ cfg' = cfg
  /\ UNCHANGED optVars

\* a call that does not touch the candidate collection
Commit(op, dropout, n, r, ret) ==
  /\ Store(op, dropout, n, r, ret)
  /\ UNCHANGED lockVars

\* FrameHandlerBase::start()
RequestStart ==
  /\ Commit("requestStart", "none", 0, [Cur EXCEPT !.set_start = TRUE], "void")
  /\ startAsked' = "pending"

\* FrameHandlerBase::reset()
RequestReset ==
  /\ Commit("requestReset", "none", 0, [Cur EXCEPT !.set_reset = TRUE], "void")
  /\ startAsked' = startAsked

StartFrameProcessing ==
  LET r == startFrameProcessingCommon(Cur)
  IN  /\ Commit("startFrameProcessing", "none", 0, r.st, r.ret)
      /\ startAsked' = "no"

FinishFrameProcessing ==
  \E dropout \in UpdateResult, n \in 0..MaxObs :
    LET r == finishFrameProcessingCommon(Cur, dropout, n)
    IN  /\ Commit("finishFrameProcessing", dropout, n, r, "0")
        \* a reset that ran last in the call took the start request with it
        /\ startAsked' = IF startAsked = "pending" /\ r.calls # <<>> /\ ~r.set_start
                         THEN "dropped"
                         ELSE startAsked

ResetAll ==
  /\ Commit("resetAll", "none", 0, resetAll(Cur), "void")
  /\ startAsked' = "no"

SetTrackingQuality ==
  \E n \in 0..MaxObs :
    /\ Commit("setTrackingQuality", "none", n, setTrackingQuality(Cur, cfg, n), "void")
    /\ startAsked' = startAsked

\* the stage-specific tracking of the derived handler: bootstrap and
\* relocalisation succeed and hand over to steady-state tracking
StageLogic ==
  /\ stage_ \in {STAGE_FIRST_FRAME, STAGE_RELOCALIZING}
  /\ Commit("stageLogic", "none", 0, [Cur EXCEPT !.stage = STAGE_DEFAULT_FRAME], "void")
  /\ startAsked' = startAsked

\* the tracking adds a point to the map
MapAddPoint ==
  /\ stage_ # STAGE_PAUSED
  /\ map_.points + map_.trash < MaxPts
  /\ Commit("mapAddPoint", "none", 0,
            [Cur EXCEPT !.map = [map_ EXCEPT !.points = @ + 1]], "void")
  /\ startAsked' = startAsked

\* the tracking marks a point for deferred deletion
MapTrashPoint ==
  /\ stage_ # STAGE_PAUSED
  /\ map_.points > 0
  /\ Commit("mapTrashPoint", "none", 0,
            [Cur EXCEPT !.map = [points |-> map_.points - 1,
                                 trash |-> map_.trash + 1]], "void")
  /\ startAsked' = startAsked

ConfigSet ==
  [qualityMinFts : 0..MaxThr, maxFts : 1..MaxThr, qualityMaxFtsDrop : (0 - 1)..MaxThr]

\* no finishFrameProcessingCommon call in flight
NoFinish ==
  [pc |-> "idle", dropout |-> "none", n |-> 0, n_candidates |-> 0]

\* the state after construction, in either build
InitMembers ==
  /\ stage_ = STAGE_PAUSED
  /\ set_reset_ = FALSE
  /\ set_start_ = FALSE
  /\ num_obs_last_ = 0
  /\ tracking_quality_ = TRACKING_INSUFFICIENT
  /\ map_ = [points |-> 0, trash |-> 0]
  /\ cfg \in ConfigSet
  /\ last = NoCall
  /\ startAsked = "no"
  /\ last_structure_optim_ = [p \in Points |-> 0]
  /\ frame_id = 0
  /\ opt = NoOpt
  /\ streak = NoStreak
  /\ mut_ = "none"
  /\ candidates_ = 0
  /\ fin = NoFinish
  /\ wpc = "idle"

\* the build without SVO_TRACE; the calls taken whole do not depend on it
Init ==
  /\ InitMembers
  /\ svo_trace = FALSE

Next ==
  \/ RequestStart
  \/ RequestReset
  \/ StartFrameProcessing
  \/ FinishFrameProcessing
  \/ ResetAll
  \/ SetTrackingQuality
  \/ StageLogic
  \/ MapAddPoint
  \/ MapTrashPoint

Spec == Init /\ [][Next]_vars

\* ------------------------------------------------------------------ optimizer runs
\* optimizeStructure on the newest frame or on the one after it; opt keeps
\* the call until the caller goes on
OptimizeStructure ==
  /\ ~opt.called
  /\ \E id \in {frame_id, frame_id + 1}, fts \in FrameFts, max_n_pts \in 0..MaxFts :
       /\ id <= MaxFrameId
       /\ \E r \in optimizeStructure(last_structure_optim_, id, fts, max_n_pts) :
            /\ last_structure_optim_' = r.marks
            /\ frame_id' = id
            /\ opt' = [called |-> TRUE, id |-> id, fts |-> fts, max_n_pts |-> max_n_pts,
                       optimized |-> r.optimized, pre |-> last_structure_optim_,
                       ctrl |-> [stage |-> stage_, set_reset |-> set_reset_,
                                 set_start |-> set_start_, num_obs_last |-> num_obs_last_,
                                 tracking_quality |-> tracking_quality_]]
            /\ streak' = NextStreak(last_structure_optim_, id, fts, max_n_pts, r.optimized)
  /\ UNCHANGED <<stage_, set_reset_, set_start_, num_obs_last_, tracking_quality_,
                 map_, cfg, last, startAsked, lockVars>>

\* the caller goes on after optimizeStructure returned
OptimizeDone ==
  /\ opt.called
  /\ opt' = NoOpt
  /\ UNCHANGED <<stage_, set_reset_, set_start_, num_obs_last_, tracking_quality_,
                 map_, cfg, last, startAsked, last_structure_optim_, frame_id, streak,
                 lockVars>>

\* the handler is started once: start(), the first frame, the hand-over to
\* steady-state tracking
OptRequestStart ==
  /\ ~opt.called
  /\ stage_ = STAGE_PAUSED
  /\ ~set_start_
  /\ RequestStart

OptStartFrameProcessing ==
  /\ ~opt.called
  /\ set_start_
  /\ StartFrameProcessing

OptStageLogic ==
  /\ ~opt.called
  /\ StageLogic

NextOpt ==
  \/ OptimizeStructure
  \/ OptimizeDone
  \/ OptRequestStart
  \/ OptStartFrameProcessing
  \/ OptStageLogic

\* one configuration is enough here: the optimizer reads none of it
InitOpt ==
  /\ Init
  /\ cfg = [qualityMinFts |-> 0, maxFts |-> 1, qualityMaxFtsDrop |-> 0]

SpecOpt == InitOpt /\ [][NextOpt]_vars

\* ------------------------------------------------------------------ candidate lock
\* The controller and the background worker around map_.point_candidates_.
\* finishFrameProcessingCommon runs in steps here: entry, the SVO_TRACE block
\* (lock, read the size, scope end), then the stage handling. The members of
\* FrameHandlerBase belong to the caller's thread alone, so the assignment
\* of line 122 is applied together with the stage handling.
ctrlVars == <<stage_, set_reset_, set_start_, num_obs_last_, tracking_quality_,
              map_, cfg, last, startAsked>>

\* a call ran Map::reset()
Resets(calls) ==
  \E i \in 1..Len(calls) : calls[i] = "reset"

LockScopeEnd_held(owner) ==
  owner

\* the closing brace of line 131: the unique_lock goes out of scope
LockScopeEnd(owner) ==
  "none"

\* entry of finishFrameProcessingCommon
FinishEnter ==
  /\ fin.pc = "idle"
  /\ stage_ # STAGE_PAUSED
  /\ \E dropout \in UpdateResult, n \in 0..MaxObs :
       fin' = [pc |-> IF svo_trace THEN "lock" ELSE "handle",
               dropout |-> dropout, n |-> n, n_candidates |-> 0]
  /\ UNCHANGED <<ctrlVars, optVars, svo_trace, mut_, candidates_, wpc>>

\* line 128: boost::unique_lock<boost::mutex> lock(mut_) blocks until the mutex is free
FinishLock ==
  /\ fin.pc = "lock"
  /\ mut_ = "none"
  /\ mut_' = "ctrl"
  /\ fin' = [fin EXCEPT !.pc = "read"]
  /\ UNCHANGED <<ctrlVars, optVars, svo_trace, candidates_, wpc>>

\* line 129: size_t n_candidates = candidates_.size()
FinishRead ==
  /\ fin.pc = "read"
  /\ fin' = [fin EXCEPT !.pc = "unlock", !.n_candidates = candidates_]
  /\ UNCHANGED <<ctrlVars, optVars, svo_trace, mut_, candidates_, wpc>>

\* line 131: end of the block
FinishUnlock ==
  /\ fin.pc = "unlock"
  /\ mut_' = LockScopeEnd(mut_)
  /\ fin' = [fin EXCEPT !.pc = "handle"]
  /\ UNCHANGED <<ctrlVars, optVars, svo_trace, candidates_, wpc>>

\* lines 134-148; a Map::reset() in them clears the candidates under their mutex
FinishHandle ==
  /\ fin.pc = "handle"
  /\ LET r == finishFrameProcessingCommon(Cur, fin.dropout, fin.n)
     IN  /\ Resets(r.calls) => mut_ = "none"
         /\ Store("finishFrameProcessing", fin.dropout, fin.n, r, "0")
         /\ candidates_' = IF Resets(r.calls) THEN 0 ELSE candidates_
         /\ startAsked' = IF startAsked = "pending" /\ r.calls # <<>> /\ ~r.set_start
                          THEN "dropped"
                          ELSE startAsked
  /\ fin' = [fin EXCEPT !.pc = "idle"]
  /\ UNCHANGED <<svo_trace, mut_, wpc>>

\* startFrameProcessingCommon between two finish calls; its Map::reset() too
\* clears the candidates under their mutex
LockStartFrameProcessing ==
  /\ fin.pc = "idle"
  /\ LET r == startFrameProcessingCommon(Cur)
     IN  /\ Resets(r.st.calls) => mut_ = "none"
         /\ Store("startFrameProcessing", "none", 0, r.st, r.ret)
         /\ candidates_' = IF Resets(r.st.calls) THEN 0 ELSE candidates_
  /\ startAsked' = "no"
  /\ UNCHANGED <<svo_trace, mut_, fin, wpc>>

LockRequestStart ==
  /\ fin.pc = "idle"
  /\ stage_ = STAGE_PAUSED
  /\ RequestStart

LockRequestReset ==
  /\ fin.pc = "idle"
  /\ stage_ # STAGE_PAUSED
  /\ RequestReset

LockStageLogic ==
  /\ fin.pc = "idle"
  /\ StageLogic

\* the worker takes the mutex
WorkerLock ==
  /\ wpc = "idle"
  /\ mut_ = "none"
  /\ mut_' = "worker"
  /\ wpc' = "locked"
  /\ UNCHANGED <<ctrlVars, optVars, svo_trace, candidates_, fin>>

\* the worker adds or removes a candidate and lets the mutex go
WorkerUnlock ==
  /\ wpc = "locked"
  /\ \E c \in {candidates_ - 1, candidates_ + 1} :
       /\ c \in 0..MaxCand
       /\ candidates_' = c
  /\ mut_' = "none"
  /\ wpc' = "idle"
  /\ UNCHANGED <<ctrlVars, optVars, svo_trace, fin>>

NextLock ==
  \/ FinishEnter
  \/ FinishLock
  \/ FinishRead
  \/ FinishUnlock
  \/ FinishHandle
  \/ LockStartFrameProcessing
  \/ LockRequestStart
  \/ LockRequestReset
  \/ LockStageLogic
  \/ WorkerLock
  \/ WorkerUnlock

\* both builds, one configuration: the lock block reads none of it
InitLock ==
  /\ InitMembers
  /\ svo_trace \in BOOLEAN
  /\ cfg = [qualityMinFts |-> 0, maxFts |-> 1, qualityMaxFtsDrop |-> 0]

SpecLock == InitLock /\ [][NextLock]_vars

\* ------------------------------------------------------------------ per-frame driver
\* The caller's frame cycle: startFrameProcessingCommon, and only when it
\* returned true the tracking (stage logic, map updates, setTrackingQuality)
\* and then finishFrameProcessingCommon; start() and reset() come at any time.
DriverStart ==
  /\ ~last.inFrame
  /\ StartFrameProcessing

DriverStageLogic ==
  /\ last.inFrame
  /\ StageLogic

DriverMapAddPoint ==
  /\ last.inFrame
  /\ MapAddPoint

DriverMapTrashPoint ==
  /\ last.inFrame
  /\ MapTrashPoint

DriverSetTrackingQuality ==
  /\ last.inFrame
  /\ SetTrackingQuality

DriverFinish ==
  /\ last.inFrame
  /\ FinishFrameProcessing

DriverResetAll ==
  /\ ~last.inFrame
  /\ ResetAll

NextDriver ==
  \/ RequestStart
  \/ RequestReset
  \/ DriverStart
  \/ DriverStageLogic
  \/ DriverMapAddPoint
  \/ DriverMapTrashPoint
  \/ DriverSetTrackingQuality
  \/ DriverFinish
  \/ DriverResetAll

SpecDriver == Init /\ [][NextDriver]_vars

TypeOK ==
  /\ stage_ \in Stage
  /\ set_reset_ \in BOOLEAN
  /\ set_start_ \in BOOLEAN
  /\ num_obs_last_ \in 0..MaxObs
  /\ tracking_quality_ \in TrackingQuality
  /\ map_.points + map_.trash <= MaxPts
  /\ svo_trace \in BOOLEAN
  /\ mut_ \in {"none", "ctrl", "worker"}
  /\ candidates_ \in 0..MaxCand
  /\ fin.pc \in {"idle", "lock", "read", "unlock", "handle"}
  /\ fin.n_candidates \in 0..MaxCand
  /\ wpc \in {"idle", "locked"}

\* ------------------------------------------------------------------ claims
\* the calls of the controller itself (the derived handler's tracking and
\* its map updates are not)
ControllerCall ==
  last.op \in {"requestStart", "requestReset", "startFrameProcessing",
               "finishFrameProcessing", "resetAll", "setTrackingQuality"}

\* the members other than the map, before and after the last call
MembersUnchanged ==
  /\ stage_ = last.pre.stage
  /\ set_reset_ = last.pre.set_reset
  /\ set_start_ = last.pre.set_start
  /\ num_obs_last_ = last.pre.num_obs_last
  /\ tracking_quality_ = last.pre.tracking_quality

\* the state resetCommon() leaves behind, but for set_start_
ResetState ==
  /\ map_ = [points |-> 0, trash |-> 0]
  /\ stage_ = STAGE_PAUSED
  /\ set_reset_ = FALSE
  /\ tracking_quality_ = TRACKING_INSUFFICIENT
  /\ num_obs_last_ = 0

\* C1 as stated: across one controller call the stage is unchanged, or goes
\* Paused -> FirstFrame in a startFrameProcessing that found the start
\* request, or {FirstFrame, DefaultFrame, Relocalizing} -> Relocalizing in a
\* finishFrameProcessing with Failure, or to Paused in a call that ran resetAll.
C1_StageClosureAsStated ==
  ControllerCall =>
    \/ stage_ = last.pre.stage
    \/ /\ last.pre.stage = STAGE_PAUSED
       /\ stage_ = STAGE_FIRST_FRAME
       /\ last.op = "startFrameProcessing"
       /\ last.pre.set_start
    \/ /\ last.pre.stage \in {STAGE_FIRST_FRAME, STAGE_DEFAULT_FRAME, STAGE_RELOCALIZING}
       /\ stage_ = STAGE_RELOCALIZING
       /\ last.op = "finishFrameProcessing"
       /\ last.dropout = RESULT_FAILURE
    \/ /\ stage_ = STAGE_PAUSED
       /\ \E i \in 1..Len(last.calls) : last.calls[i] = "reset"

\* C1 amended: as above, but a startFrameProcessing that found the start
\* request takes the stage to FirstFrame from ANY stage, not only from Paused.
C1_StageClosure ==
  ControllerCall =>
    \/ stage_ = last.pre.stage
    \/ /\ stage_ = STAGE_FIRST_FRAME
       /\ last.op = "startFrameProcessing"
       /\ last.pre.set_start
    \/ /\ last.pre.stage \in {STAGE_FIRST_FRAME, STAGE_DEFAULT_FRAME, STAGE_RELOCALIZING}
       /\ stage_ = STAGE_RELOCALIZING
       /\ last.op = "finishFrameProcessing"
       /\ last.dropout = RESULT_FAILURE
    \/ /\ stage_ = STAGE_PAUSED
       /\ \E i \in 1..Len(last.calls) : last.calls[i] = "reset"

\* a start request restarted the bootstrap from steady-state tracking
C1_Witness ==
  /\ last.op = "startFrameProcessing"
  /\ last.pre.stage = STAGE_DEFAULT_FRAME
  /\ stage_ = STAGE_FIRST_FRAME

\* C2: startFrameProcessing returns false exactly when the stage was Paused
\* on entry with no start request (so the stage is Paused after the request
\* was applied); then it calls no Map method and changes nothing. When it
\* returns true it calls emptyTrash exactly once, last, after the reset of a
\* start request, and the deferred deletions are drained on return.
C2_StartReturn ==
  last.op = "startFrameProcessing" =>
    /\ last.ret \in {"true", "false"}
    /\ last.ret = "false" <=> (last.pre.stage = STAGE_PAUSED /\ ~last.pre.set_start)
    /\ last.ret = "false" <=> stage_ = STAGE_PAUSED
    /\ last.ret = "false" =>
         /\ last.calls = <<>>
         /\ MembersUnchanged
         /\ map_ = last.pre.map
    /\ last.ret = "true" =>
         /\ last.calls = IF last.pre.set_start THEN <<"reset", "emptyTrash">>
                                               ELSE <<"emptyTrash">>
         /\ map_.trash = 0

\* an active frame start that had deferred deletions to drain
C2_Witness ==
  /\ last.op = "startFrameProcessing"
  /\ last.ret = "true"
  /\ ~last.pre.set_start
  /\ last.pre.map.trash > 0

\* C3: a Failure result in stage FirstFrame or Paused with no reset request
\* pending leaves the map reset, stage Paused, the start request set, quality
\* Insufficient and the last observation count 0; the startFrameProcessing
\* call right after it sets stage FirstFrame, clears the start request and
\* returns true.
C3_HardFailure ==
  /\ HardFailureDone =>
       /\ ResetState
       /\ set_start_ = TRUE
       /\ \E i \in 1..Len(last.calls) : last.calls[i] = "reset"
  /\ (last.op = "startFrameProcessing" /\ last.prevHard) =>
       /\ stage_ = STAGE_FIRST_FRAME
       /\ set_start_ = FALSE
       /\ last.ret = "true"

\* the frame start that follows a hard failure
C3_Witness ==
  /\ last.op = "startFrameProcessing"
  /\ last.prevHard

\* C4: a Failure result in stage DefaultFrame or Relocalizing with no reset
\* request pending leaves stage Relocalizing, quality Insufficient, the last
\* observation count equal to the argument, the start request as it was and
\* the map untouched (no Map method called), also when already Relocalizing.
C4_SoftFailure ==
  ( /\ last.op = "finishFrameProcessing"
    /\ last.dropout = RESULT_FAILURE
    /\ last.pre.stage \in {STAGE_DEFAULT_FRAME, STAGE_RELOCALIZING}
    /\ ~last.pre.set_reset ) =>
    /\ stage_ = STAGE_RELOCALIZING
    /\ tracking_quality_ = TRACKING_INSUFFICIENT
    /\ num_obs_last_ = last.n
    /\ set_start_ = last.pre.set_start
    /\ set_reset_ = FALSE
    /\ last.calls = <<>>
    /\ map_ = last.pre.map

\* a repeated soft failure over a map that holds a point
C4_Witness ==
  /\ last.op = "finishFrameProcessing"
  /\ last.dropout = RESULT_FAILURE
  /\ last.pre.stage = STAGE_RELOCALIZING
  /\ last.pre.tracking_quality = TRACKING_INSUFFICIENT
  /\ ~last.pre.set_reset
  /\ last.pre.map.points > 0
  /\ last.n > 0

\* C5: whatever the stage and the result, a finishFrameProcessing entered
\* with the reset request set returns in the state resetAll leaves: map
\* reset, stage Paused, both request flags clear, quality Insufficient, last
\* observation count 0.
C5_PendingReset ==
  (last.op = "finishFrameProcessing" /\ last.pre.set_reset) =>
    /\ ResetState
    /\ set_start_ = FALSE

\* C6 as stated: once start() was called, whatever finishFrameProcessing,
\* reset() and setTrackingQuality calls come in between, the next
\* startFrameProcessing resets, sets stage FirstFrame and returns true.
C6_StartHonoredAsStated ==
  (last.op = "startFrameProcessing" /\ last.pre.startAsked \in {"pending", "dropped"}) =>
    /\ last.calls = <<"reset", "emptyTrash">>
    /\ stage_ = STAGE_FIRST_FRAME
    /\ last.ret = "true"

\* C6 amended: the same, provided no finishFrameProcessing in between ended
\* by applying a reset (one entered with the reset request set that did not
\* take the hard-failure branch): that reset clears the start request.
C6_StartHonored ==
  (last.op = "startFrameProcessing" /\ last.pre.startAsked = "pending") =>
    /\ last.calls = <<"reset", "emptyTrash">>
    /\ stage_ = STAGE_FIRST_FRAME
    /\ last.ret = "true"

\* a start request honored while relocalizing, with a reset request raised
\* after it and still pending
C6_Witness ==
  /\ last.op = "startFrameProcessing"
  /\ last.pre.startAsked = "pending"
  /\ last.pre.stage = STAGE_RELOCALIZING
  /\ last.pre.set_reset
  /\ stage_ = STAGE_FIRST_FRAME

\* C7: startFrameProcessing entered with the start request set, from any
\* stage, first resets (Map.reset, quality Insufficient, last observation
\* count 0, both request flags clear), then sets stage FirstFrame, and
\* returns true.
C7_StartRequested ==
  (last.op = "startFrameProcessing" /\ last.pre.set_start) =>
    /\ last.calls = <<"reset", "emptyTrash">>
    /\ map_ = [points |-> 0, trash |-> 0]
    /\ tracking_quality_ = TRACKING_INSUFFICIENT
    /\ num_obs_last_ = 0
    /\ set_reset_ = FALSE
    /\ set_start_ = FALSE
    /\ stage_ = STAGE_FIRST_FRAME
    /\ last.ret = "true"

\* a start request taken in steady state together with a pending reset request
C7_Witness ==
  /\ last.op = "startFrameProcessing"
  /\ last.pre.set_start
  /\ last.pre.set_reset
  /\ last.pre.stage = STAGE_DEFAULT_FRAME
  /\ last.pre.tracking_quality = TRACKING_GOOD
  /\ last.pre.num_obs_last > 0
  /\ last.pre.map.points > 0

\* the quality the gate must give for baseline b and observation count n
GateQuality(b, n) ==
  IF n >= cfg.qualityMinFts /\ Min(b, cfg.maxFts) - n <= cfg.qualityMaxFtsDrop
  THEN TRACKING_GOOD
  ELSE TRACKING_INSUFFICIENT

\* C8 as stated: after every finishFrameProcessing the last observation
\* count equals the observationCount argument.
C8_LastObservationAsStated ==
  last.op = "finishFrameProcessing" => num_obs_last_ = last.n

\* C8 amended: after finishFrameProcessing the last observation count equals
\* the observationCount argument unless the call reset (hard failure or
\* pending reset request), and then it is 0; the stored count is the
\* baseline of the next setTrackingQuality.
C8_LastObservation ==
  /\ last.op = "finishFrameProcessing" =>
       num_obs_last_ = IF last.calls = <<>> THEN last.n ELSE 0
  /\ last.op = "setTrackingQuality" =>
       /\ num_obs_last_ = last.pre.num_obs_last
       /\ tracking_quality_ = GateQuality(last.pre.num_obs_last, last.n)

\* a finished frame with observations whose call reset the controller
C8_Witness ==
  /\ last.op = "finishFrameProcessing"
  /\ last.calls # <<>>
  /\ last.n > 0
  /\ num_obs_last_ = 0

\* C9: resetAll from any state leaves stage Paused, last observation count 0,
\* quality Insufficient, both request flags clear, and calls Map.reset once.
C9_ResetAll ==
  last.op = "resetAll" =>
    /\ ResetState
    /\ set_start_ = FALSE
    /\ last.calls = <<"reset">>

\* resetAll called with everything set
C9_Witness ==
  /\ last.op = "resetAll"
  /\ last.pre.stage = STAGE_DEFAULT_FRAME
  /\ last.pre.set_start
  /\ last.pre.set_reset
  /\ last.pre.tracking_quality = TRACKING_GOOD
  /\ last.pre.num_obs_last > 0
  /\ last.pre.map.points > 0

\* C10: setTrackingQuality(n) gives Good exactly when n >= qualityMinFts and
\* min(lastObservationCount, maxFts) - n <= qualityMaxFtsDrop, Insufficient
\* otherwise, whatever the quality was before; it changes nothing else.
C10_QualityGate ==
  last.op = "setTrackingQuality" =>
    /\ tracking_quality_ = TRACKING_GOOD <=>
         /\ last.n >= cfg.qualityMinFts
         /\ Min(last.pre.num_obs_last, cfg.maxFts) - last.n <= cfg.qualityMaxFtsDrop
    /\ tracking_quality_ \in TrackingQuality
    /\ last.n < cfg.qualityMinFts => tracking_quality_ = TRACKING_INSUFFICIENT
    /\ stage_ = last.pre.stage
    /\ set_reset_ = last.pre.set_reset
    /\ set_start_ = last.pre.set_start
    /\ last.calls = <<>>

\* enough features but too large a drop against the capped baseline,
\* degrading a quality that was Good
C10_Witness ==
  /\ last.op = "setTrackingQuality"
  /\ last.n >= cfg.qualityMinFts
  /\ last.pre.num_obs_last > cfg.maxFts
  /\ cfg.maxFts - last.n > cfg.qualityMaxFtsDrop
  /\ last.pre.tracking_quality = TRACKING_GOOD
  /\ tracking_quality_ = TRACKING_INSUFFICIENT

\* C11: the feature drop the code computes from an int and a size_t equals
\* the integer min(lastObservationCount, maxFts) - observationCount, also
\* when it is negative; with lastObservationCount = 0 and a maximum drop
\* >= 0 the quality is decided by the minimum-feature test alone.
C11_FeatureDrop ==
  last.op = "setTrackingQuality" =>
    /\ FeatureDrop([num_obs_last |-> last.pre.num_obs_last], cfg, last.n)
         = Min(last.pre.num_obs_last, cfg.maxFts) - last.n
    /\ (last.pre.num_obs_last = 0 /\ cfg.qualityMaxFtsDrop >= 0) =>
         (tracking_quality_ = TRACKING_GOOD <=> last.n >= cfg.qualityMinFts)

\* a first evaluation with more observations than the empty baseline, left Good
C11_Witness ==
  /\ last.op = "setTrackingQuality"
  /\ last.pre.num_obs_last = 0
  /\ last.n > 0
  /\ cfg.qualityMaxFtsDrop >= 0
  /\ tracking_quality_ = TRACKING_GOOD

\* the number of Map.reset calls in the list cs
RECURSIVE ResetCount(_)
ResetCount(cs) ==
  IF cs = <<>> THEN 0
  ELSE (IF Head(cs) = "reset" THEN 1 ELSE 0) + ResetCount(Tail(cs))

\* C15: one finishFrameProcessing call resets at most once, whatever the
\* stage, the result and the reset request, also on a hard failure with a
\* reset request pending.
C15_NoDoubleReset ==
  last.op = "finishFrameProcessing" => ResetCount(last.calls) <= 1

\* a hard failure that arrived with a reset request pending
C15_Witness ==
  /\ last.op = "finishFrameProcessing"
  /\ last.dropout = RESULT_FAILURE
  /\ last.pre.stage = STAGE_FIRST_FRAME
  /\ last.pre.set_reset
  /\ ResetCount(last.calls) = 1

\* C16: under the per-frame driver, a state with stage Paused has quality
\* Insufficient and last observation count 0, and no frame is open in it.
C16_PausedIsReset ==
  stage_ = STAGE_PAUSED =>
    /\ tracking_quality_ = TRACKING_INSUFFICIENT
    /\ num_obs_last_ = 0
    /\ ~last.inFrame

\* a frame with Good tracking and observations ended in Paused
C16_Witness ==
  /\ stage_ = STAGE_PAUSED
  /\ last.op = "finishFrameProcessing"
  /\ last.pre.tracking_quality = TRACKING_GOOD
  /\ last.n > 0

\* C20: finishFrameProcessing with result Normal or Keyframe and no reset
\* request pending only records the observation count: stage, quality and
\* both request flags stay, and no Map method is called.
C20_NormalFinish ==
  ( /\ last.op = "finishFrameProcessing"
    /\ last.dropout \in {RESULT_NORMAL, RESULT_IS_KEYFRAME}
    /\ ~last.pre.set_reset ) =>
    /\ num_obs_last_ = last.n
    /\ stage_ = last.pre.stage
    /\ tracking_quality_ = last.pre.tracking_quality
    /\ set_start_ = last.pre.set_start
    /\ set_reset_ = FALSE
    /\ last.calls = <<>>
    /\ map_ = last.pre.map

\* a keyframe finished in steady state with Good tracking and a start request waiting
C20_Witness ==
  /\ last.op = "finishFrameProcessing"
  /\ last.dropout = RESULT_IS_KEYFRAME
  /\ last.pre.stage = STAGE_DEFAULT_FRAME
  /\ last.pre.tracking_quality = TRACKING_GOOD
  /\ last.pre.set_start
  /\ ~last.pre.set_reset
  /\ last.n > 0
  /\ last.n # last.pre.num_obs_last

\* the Points the Features of the last optimizeStructure call reference
Candidates ==
  { opt.fts[i] : i \in { j \in 1..Len(opt.fts) : opt.fts[j] # NULL } }

\* the number of Features of that call that reference a Point
NumReferences ==
  Cardinality({ j \in 1..Len(opt.fts) : opt.fts[j] # NULL })

\* how often p occurs in the sequence q
Occurrences(q, p) ==
  Cardinality({ i \in 1..Len(q) : q[i] = p })

\* C12: optimizeStructure calls Point.optimize exactly min(maxPoints, number
\* of Features with a Point) times, each call on the Point of a Feature of
\* the frame of its own; with maxPoints = 0 or no referenced Point nothing
\* is refined.
C12_RefineCount ==
  opt.called =>
    /\ Len(opt.optimized) = Min(opt.max_n_pts, NumReferences)
    /\ \A p \in Range(opt.optimized) : p \in Candidates
    /\ \A p \in Points : Occurrences(opt.optimized, p) <= Occurrences(opt.fts, p)
    /\ (opt.max_n_pts = 0 \/ Candidates = {}) =>
         /\ opt.optimized = <<>>
         /\ last_structure_optim_ = opt.pre

\* a frame with a Feature without a Point and fewer referenced Points than
\* the cap: all of them are refined
C12_Witness ==
  /\ opt.called
  /\ \E j \in 1..Len(opt.fts) : opt.fts[j] = NULL
  /\ NumReferences = 2
  /\ opt.max_n_pts > NumReferences
  /\ Len(opt.optimized) = 2

\* C13: the Points refined are candidates with the smallest marks: the mark
\* a refined Point had on entry is <= the mark of every candidate that was
\* not refined, whatever the order of the Features.
C13_SmallestMarks ==
  opt.called =>
    \A p \in Range(opt.optimized), c \in Candidates \ Range(opt.optimized) :
      opt.pre[p] <= opt.pre[c]

\* the Point refined stood behind a candidate with a larger mark, which was left out
C13_Witness ==
  /\ opt.called
  /\ Len(opt.fts) >= 2
  /\ opt.fts[1] # NULL
  /\ opt.fts[2] # NULL
  /\ opt.optimized = <<opt.fts[2]>>
  /\ opt.pre[opt.fts[2]] < opt.pre[opt.fts[1]]

\* C14: on return every refined Point carries the frame's id, every other
\* Point its mark from before, and the controller's members are as before.
C14_Stamp ==
  opt.called =>
    /\ \A p \in Points :
         last_structure_optim_[p] = IF p \in Range(opt.optimized) THEN opt.id ELSE opt.pre[p]
    /\ stage_ = opt.ctrl.stage
    /\ set_reset_ = opt.ctrl.set_reset
    /\ set_start_ = opt.ctrl.set_start
    /\ num_obs_last_ = opt.ctrl.num_obs_last
    /\ tracking_quality_ = opt.ctrl.tracking_quality

\* in steady state, a refined Point gets a new mark while a candidate left
\* out keeps the mark of an earlier frame
C14_Witness ==
  /\ opt.called
  /\ stage_ = STAGE_DEFAULT_FRAME
  /\ \E p \in Range(opt.optimized) : opt.pre[p] # opt.id
  /\ \E c \in Candidates \ Range(opt.optimized) :
       opt.pre[c] > 0 /\ last_structure_optim_[c] = opt.pre[c]

\* n / k rounded up
CeilDiv(n, k) ==
  (n + k - 1) \div k

\* C17: in a run of optimizeStructure calls with the same maxPoints = k >= 1
\* on frames that reference the same n Points, each with an id above every
\* stored mark, no Point goes ceil(n / k) calls in a row without being refined.
C17_NoStarvation ==
  streak.k >= 1 =>
    \A p \in streak.S : streak.age[p] < CeilDiv(Cardinality(streak.S), streak.k)

\* the same for runs in which every frame references each Point from one
\* Feature only
NoStarvationOnce ==
  (streak.k >= 1 /\ streak.once) =>
    \A p \in streak.S : streak.age[p] < CeilDiv(Cardinality(streak.S), streak.k)

\* C18: one optimizeStructure call refines each Point at most once, also
\* when several Features reference it, and the number of distinct Points
\* refined is min(maxPoints, number of distinct referenced Points).
C18_RefinedOnce ==
  opt.called =>
    /\ \A p \in Points : Occurrences(opt.optimized, p) <= 1
    /\ Cardinality(Range(opt.optimized)) = Min(opt.max_n_pts, Cardinality(Candidates))

\* the controller waits for the candidates' mutex
CtrlWaits ==
  \/ fin.pc = "lock"
  \/ fin.pc = "handle" /\ Resets(finishFrameProcessingCommon(Cur, fin.dropout, fin.n).calls)
  \/ fin.pc = "idle" /\ Resets(startFrameProcessingCommon(Cur).st.calls)

\* C19: the controller reads the size of the candidate collection only
\* while it holds the mutex, holds the mutex for that read only, and has let
\* it go before the stage handling, any reset and the return of
\* finishFrameProcessing (so also outside the call, where Point.optimize
\* runs); the worker and the controller never hold it together, and when
\* the controller waits for the mutex the worker holds it and can let it go.
C19_LockDiscipline ==
  /\ fin.pc = "read" => mut_ = "ctrl"
  /\ mut_ = "ctrl" <=> fin.pc \in {"read", "unlock"}
  /\ fin.pc \in {"idle", "lock", "handle"} => mut_ # "ctrl"
  /\ mut_ = "worker" <=> wpc = "locked"
  /\ ~svo_trace => mut_ # "ctrl"
  /\ (CtrlWaits /\ mut_ # "none") => (mut_ = "worker" /\ ENABLED WorkerUnlock)

\* the controller has read the size of a collection the worker filled and
\* is about to leave the block, a reset request pending
C19_Witness ==
  /\ svo_trace
  /\ fin.pc = "unlock"
  /\ fin.n_candidates > 0
  /\ mut_ = "ctrl"
  /\ set_reset_
====
